---------------------------- MODULE Spec2Model ----------------------------
(***************************************************************************)
(* A model of the two programs of the repository:                          *)
(*   src/getstock.cc  downloads one CSV body per ticker and writes it to a *)
(*                    file or to stdout between begin:/end: markers;       *)
(*   src/main.cc      reads a begin date, an end date and file paths and   *)
(*                    extracts the "Adj. Close" column of every file.      *)
(* C strings are sequences of one-character strings; the terminating NUL   *)
(* is implicit (an offset at or past the length reads NUL).  Pointers into *)
(* a string are zero-based offsets.                                        *)
(***************************************************************************)
EXTENDS Integers, Sequences, FiniteSets, TLC

VARIABLES
    \* ---- indexOf, called on its own (main.cc:143) ----
    hdrFields,   \* the fields the header line was written from
    line,        \* the header line as fgets returns it
    field,       \* the field name looked up
    ixres,       \* the outcome of indexOf(line, field)
    \* ---- read_until (main.cc:98) ----
    file,        \* the FILE stream: [data, pos]
    layout,      \* header fields and rows the stream was written from
    begin,       \* the date to synchronize with (time_t)
    rupc,        \* where read_until is
    date_index,  \* its local of that name
    ruret,       \* its return value
    \* ---- main and read_stock_data (main.cc:370, main.cc:48) ----
    cin,         \* standard input: [begin_date, end_date]
    files,       \* the files named on standard input, in order
    mpc,         \* where main is
    mexit,       \* how the process ended
    fidx,        \* the file of the loop over filepaths (1-based)
    rowno,       \* the data rows of that file read so far
    fp,          \* the stream of that file: [data, pos]
    buf,         \* char buf[256]: [init, text]
    close_index, \* the local of that name
    prices,      \* the local of that name
    data,        \* the local of that name
    nopen,       \* FILE handles opened and not closed
    \* ---- getstock's main (getstock.cc:210) ----
    opt,         \* the command line: [keyfile, keytext, b, e, o, tickers]
    gpc,         \* where main is
    gexit,       \* how the process ended
    api_key,     \* the local of that name
    dbroot,      \* the local of that name
    av,          \* the ticker arguments not yet processed
    ticker,      \* the local of that name
    url,         \* the local of that name
    buffer,      \* the local of that name: the body being received
    gstdout,     \* the fwrite calls on stdout, in order
    gfiles,      \* the files written, in order: [name, content]
    gopen,       \* FILE handles opened and not closed
    sent,        \* per ticker fetched, the chunks the transport delivered
    failed       \* the first transfer that did not succeed: [at, res]

ixVars == <<hdrFields, line, field, ixres>>
ruVars == <<file, layout, begin, rupc, date_index, ruret>>
rsVars == <<cin, files, mpc, mexit, fidx, rowno, fp, buf, close_index,
            prices, data, nopen>>
gsVars == <<opt, gpc, gexit, api_key, dbroot, av, ticker, url, buffer,
            gstdout, gfiles, gopen, sent, failed>>
vars == <<ixVars, ruVars, rsVars, gsVars>>

-----------------------------------------------------------------------------
(* Bounds of the model *)

\* the most fields a header line has
MaxFields == 3
\* the most data rows a file has
MaxRows == 3
\* the most files named on standard input, and the most data rows of each
MaxFiles == 2
MaxFileRows == 2
\* the most tickers on getstock's command line, and the most chunks the
\* transport delivers in a run
MaxTickers == 2
MaxChunks == 3

-----------------------------------------------------------------------------
(* Characters and C string functions *)

NUL == "NUL"
NL == "\n"
DATA_SEP == ","
NULL == -1

LowerLetters == <<"a","b","c","d","e","f","g","h","i","j","k","l","m",
                  "n","o","p","q","r","s","t","u","v","w","x","y","z">>
UpperLetters == <<"A","B","C","D","E","F","G","H","I","J","K","L","M",
                  "N","O","P","Q","R","S","T","U","V","W","X","Y","Z">>

tolower(c) ==
    IF \E i \in 1..26 : UpperLetters[i] = c
    THEN LowerLetters[CHOOSE i \in 1..26 : UpperLetters[i] = c]
    ELSE c

toupper(c) ==
    IF \E i \in 1..26 : LowerLetters[i] = c
    THEN UpperLetters[CHOOSE i \in 1..26 : LowerLetters[i] = c]
    ELSE c

\* *(s + p)
CharAt(s, p) == IF p >= 0 /\ p < Len(s) THEN s[p + 1] ELSE NUL

strlen(s) == Len(s)

RECURSIVE strchr(_, _, _)
\* strchr(s + p, c): the offset of the first c at or after p, or NULL
strchr(s, p, c) ==
    IF p < 0 \/ p >= Len(s) THEN NULL
    ELSE IF s[p + 1] = c THEN p
    ELSE strchr(s, p + 1, c)

\* strchrnul(s + p, c): as strchr, but the offset of the terminator when
\* there is no c.  indexOf also calls it one past the terminator (begin =
\* end + 1 with end at the terminator); the loop then ends without reading
\* the result, which is given here as p.
strchrnul(s, p, c) ==
    IF strchr(s, p, c) # NULL THEN strchr(s, p, c)
    ELSE IF p <= Len(s) THEN Len(s) ELSE p

\* strcmp(s, t) == 0
strcmp(s, t) == IF s = t THEN 0 ELSE 1

RECURSIVE strncasecmpFrom(_, _, _, _, _)
strncasecmpFrom(s, p, t, n, i) ==
    IF i >= n THEN 0
    ELSE IF tolower(CharAt(s, p + i)) # tolower(CharAt(t, i)) THEN 1
    ELSE IF CharAt(s, p + i) = NUL THEN 0
    ELSE strncasecmpFrom(s, p, t, n, i + 1)

\* strncasecmp(s + p, t, n): 0 when the first n characters (or the strings
\* up to their terminators) agree ignoring case, nonzero otherwise
strncasecmp(s, p, t, n) == strncasecmpFrom(s, p, t, n, 0)

-----------------------------------------------------------------------------
(* indexOf *)

Ret(v) == [status |-> "ret", value |-> v]
Die(msg) == [status |-> "die", value |-> msg]
None == [status |-> "none", value |-> 0]

RECURSIVE indexOfLoop(_, _, _, _, _)
indexOfLoop(ln, fld, b, e, index) ==
    IF b >= strlen(ln) THEN index
    ELSE IF strncasecmp(ln, b, fld, e - b) = 0 THEN index
    ELSE indexOfLoop(ln, fld, e + 1, strchrnul(ln, e + 1, DATA_SEP), index + 1)

nsepOf(ln) == Cardinality({q \in 1..Len(ln) : ln[q] = DATA_SEP})

indexOf(ln, fld) ==
    IF strchr(ln, 0, DATA_SEP) = NULL
    THEN IF strcmp(ln, fld) = 0 THEN Ret(0) ELSE Die("Field not found in string")
    ELSE LET index == indexOfLoop(ln, fld, 0, strchr(ln, 0, DATA_SEP), 0)
         IN  IF index > nsepOf(ln) THEN Die("Field not found in data")
             ELSE Ret(index)

-----------------------------------------------------------------------------
(* Text the inputs are written from *)

sDate == <<"D","a","t","e">>
sDATE == <<"D","A","T","E">>
sdate == <<"d","a","t","e">>
sClose == <<"C","l","o","s","e">>
sAdjClose == <<"A","d","j","."," ","C","l","o","s","e">>
sadjclose == <<"a","d","j","."," ","c","l","o","s","e">>
sAdj == <<"A","d","j">>

HeaderVocab == {sDate, sDATE, sClose, sAdjClose, sAdj, <<>>}
FieldNames == {sdate, sDate, sAdjClose, sadjclose, sClose}

RECURSIVE Join(_)
\* the fields with DATA_SEP between them
Join(fs) ==
    IF Len(fs) = 0 THEN <<>>
    ELSE IF Len(fs) = 1 THEN fs[1]
    ELSE fs[1] \o <<DATA_SEP>> \o Join(Tail(fs))

SeqsUpTo(S, n) == UNION {[1..k -> S] : k \in 0..n}

-----------------------------------------------------------------------------
(* indexOf called on a header line *)

GsIdle ==
    /\ opt = [keyfile |-> <<>>, keytext |-> <<>>, b |-> <<>>, e |-> <<>>,
              o |-> <<>>, tickers |-> <<>>]
    /\ gpc = "off"
    /\ gexit = None
    /\ api_key = <<>>
    /\ dbroot = <<>>
    /\ av = <<>>
    /\ ticker = <<>>
    /\ url = <<>>
    /\ buffer = <<>>
    /\ gstdout = <<>>
    /\ gfiles = <<>>
    /\ gopen = 0
    /\ sent = <<>>
    /\ failed = [at |-> 0, res |-> "CURLE_OK"]

RsIdle ==
    /\ cin = [begin_date |-> <<>>, end_date |-> <<>>]
    /\ files = <<>>
    /\ mpc = "off"
    /\ mexit = None
    /\ fidx = 0
    /\ rowno = 0
    /\ fp = [data |-> <<>>, pos |-> 0]
    /\ buf = [init |-> FALSE, text |-> <<>>]
    /\ close_index = 0
    /\ prices = <<>>
    /\ data = <<>>
    /\ nopen = 0

IxIdle ==
    /\ file = [data |-> <<>>, pos |-> 0]
    /\ layout = [header |-> <<>>, rows |-> <<>>]
    /\ begin = 0
    /\ rupc = "off"
    /\ date_index = 0
    /\ ruret = None

RuIdle ==
    /\ hdrFields = <<>>
    /\ line = <<>>
    /\ field = <<>>
    /\ ixres = None

InitIndex ==
    /\ hdrFields \in SeqsUpTo(HeaderVocab, MaxFields) \ {<<>>}
    /\ \E nl \in {<<>>, <<NL>>} : line = Join(hdrFields) \o nl
    /\ field \in FieldNames
    /\ ixres = None
    /\ IxIdle
    /\ RsIdle
    /\ GsIdle

CallIndexOf ==
    /\ ixres.status = "none"
    /\ ixres' = indexOf(line, field)
    /\ UNCHANGED <<hdrFields, line, field, ruVars, rsVars, gsVars>>

NextIndex == CallIndexOf

SpecIndex == InitIndex /\ [][NextIndex]_vars

FieldEq(a, b) ==
    /\ Len(a) = Len(b)
    /\ \A i \in 1..Len(a) : tolower(a[i]) = tolower(b[i])

MatchingFields == {i \in 1..Len(hdrFields) : FieldEq(hdrFields[i], field)}

\* C5: indexOf returns the zero-based position of the first header field
\* that equals the name ignoring case, comparing whole fields at any
\* position (the last included), and dies exactly when no field equals it.
C5_IndexOfFirstEqualField ==
    ixres.status # "none" =>
        IF MatchingFields = {}
        THEN ixres.status = "die"
        ELSE ixres = Ret((CHOOSE i \in MatchingFields :
                            \A j \in MatchingFields : i <= j) - 1)

-----------------------------------------------------------------------------
(* stdio on a stream [data, pos] *)

sizeofBuf == 256
SEEK_SET == 0
SEEK_CUR == 1
SEEK_END == 2

\* fgets(buf, size, file): at most size - 1 characters, up to and including
\* a newline; ok is FALSE (a NULL return) when nothing is left to read
fgets(size, f) ==
    LET n == Len(f.data)
        nl == strchr(f.data, f.pos, NL)
        stop == IF nl # NULL /\ nl + 1 - f.pos <= size - 1 THEN nl + 1
                ELSE IF n - f.pos <= size - 1 THEN n
                ELSE f.pos + size - 1
    IN  IF f.pos >= n
        THEN [ok |-> FALSE, buf |-> <<>>, file |-> f]
        ELSE [ok |-> TRUE,
              buf |-> SubSeq(f.data, f.pos + 1, stop),
              file |-> [f EXCEPT !.pos = stop]]

\* fseek(file, offset, whence): fails, leaving the position alone, when
\* whence is none of SEEK_SET, SEEK_CUR, SEEK_END or the position would be
\* negative
fseek(f, offset, whence) ==
    LET base == IF whence = SEEK_SET THEN 0
                ELSE IF whence = SEEK_CUR THEN f.pos
                ELSE Len(f.data)
    IN  IF whence \notin {SEEK_SET, SEEK_CUR, SEEK_END} \/ base + offset < 0
        THEN f
        ELSE [f EXCEPT !.pos = base + offset]

-----------------------------------------------------------------------------
(* strptime(s, DATE_FMT, &tm) and mktime(&tm) *)

Digits == <<"0","1","2","3","4","5","6","7","8","9">>
IsDigit(c) == \E i \in 1..10 : Digits[i] = c
DigitVal(c) == (CHOOSE i \in 1..10 : Digits[i] = c) - 1

RECURSIVE readNumber(_, _, _, _, _)
\* up to maxd digits from offset p: [n digits read, val, p the offset after]
readNumber(s, p, maxd, n, val) ==
    IF n < maxd /\ IsDigit(CharAt(s, p))
    THEN readNumber(s, p + 1, maxd, n + 1, val * 10 + DigitVal(CharAt(s, p)))
    ELSE [n |-> n, val |-> val, p |-> p]

\* "%Y-%m-%d" at offset p: [ok, year, mon, mday]
strptime(s, p) ==
    LET y == readNumber(s, p, 4, 0, 0)
        m == readNumber(s, y.p + 1, 2, 0, 0)
        d == readNumber(s, m.p + 1, 2, 0, 0)
    IN  IF /\ y.n > 0 /\ CharAt(s, y.p) = "-"
           /\ m.n > 0 /\ m.val \in 1..12 /\ CharAt(s, m.p) = "-"
           /\ d.n > 0 /\ d.val \in 1..31
        THEN [ok |-> TRUE, year |-> y.val, mon |-> m.val, mday |-> d.val]
        ELSE [ok |-> FALSE, year |-> 0, mon |-> 0, mday |-> 0]

\* mktime of midnight of a calendar date, in seconds since 1970-01-01 (UTC)
mktime(tm) ==
    LET y == IF tm.mon <= 2 THEN tm.year - 1 ELSE tm.year
        era == y \div 400
        yoe == y - era * 400
        mp == IF tm.mon > 2 THEN tm.mon - 3 ELSE tm.mon + 9
        doy == (153 * mp + 2) \div 5 + tm.mday - 1
        doe == yoe * 365 + yoe \div 4 - yoe \div 100 + doy
    IN  (era * 146097 + doe - 719468) * 86400

strtotime(s) == IF strptime(s, 0).ok THEN mktime(strptime(s, 0)) ELSE 0

-----------------------------------------------------------------------------
(* read_until *)

d0102 == <<"2","0","1","8","-","0","1","-","0","2">>
d0103 == <<"2","0","1","8","-","0","1","-","0","3">>
d0105 == <<"2","0","1","8","-","0","1","-","0","5">>
d0101 == <<"2","0","1","8","-","0","1","-","0","1">>
d0104 == <<"2","0","1","8","-","0","1","-","0","4">>
d0201 == <<"2","0","1","8","-","0","2","-","0","1">>
sNA == <<"n","/","a">>
sPrice == <<"1","0">>

\* the date texts a row may carry (sNA is not a date), and the dates asked for
RowDates == {d0102, d0103, d0105, sNA}
TargetDates == {d0101, d0103, d0104, d0201}
\* the headers of the streams read_until is run on
ScanHeaders == {<<sDate, sClose>>, <<sdate, sClose>>, <<sClose, sDate>>,
                <<sDate>>}

IsDateField(f) == FieldEq(f, sdate)

\* a row [date, price, short] under a header: the date in the date column,
\* the price in the "Adj. Close" column, "10" elsewhere; a short row stops
\* after its first field
RowFields(header, row) ==
    LET full == [i \in 1..Len(header) |->
                    IF IsDateField(header[i]) THEN row.date
                    ELSE IF FieldEq(header[i], sAdjClose) THEN row.price
                    ELSE sPrice]
    IN  IF row.short THEN <<full[1]>> ELSE full

RowLine(header, row) == Join(RowFields(header, row)) \o <<NL>>

RECURSIVE RowLines(_, _)
RowLines(header, rows) ==
    IF rows = <<>> THEN <<>>
    ELSE RowLine(header, Head(rows)) \o RowLines(header, Tail(rows))

\* the text of a file: nothing at all, or the header line and the row lines
FileText(lay) ==
    IF lay.header = <<>> THEN <<>>
    ELSE Join(lay.header) \o <<NL>> \o RowLines(lay.header, lay.rows)

ScanRows == [date : RowDates, price : {sPrice}, short : BOOLEAN]

InitScan ==
    /\ layout \in [header : ScanHeaders \cup {<<>>},
                   rows : SeqsUpTo(ScanRows, MaxRows)]
    /\ layout.header = <<>> => layout.rows = <<>>
    /\ file = [data |-> FileText(layout), pos |-> 0]
    /\ \E t \in TargetDates : begin = strtotime(t)
    /\ rupc = "header"
    /\ date_index = 0
    /\ ruret = None
    /\ RuIdle
    /\ RsIdle
    /\ GsIdle

\* lines 108-110: read the header line and find the date field in it
RuHeader ==
    /\ rupc = "header"
    /\ LET r == fgets(sizeofBuf, file)
           ix == indexOf(r.buf, sdate)
       IN  /\ file' = r.file
           /\ IF ~r.ok
              THEN /\ rupc' = "died"
                   /\ ruret' = Die("File is empty")
                   /\ UNCHANGED date_index
              ELSE IF ix.status = "die"
              THEN /\ rupc' = "died"
                   /\ ruret' = ix
                   /\ UNCHANGED date_index
              ELSE /\ rupc' = "rows"
                   /\ date_index' = ix.value
                   /\ UNCHANGED ruret
    /\ UNCHANGED <<layout, begin, ixVars, rsVars, gsVars>>

RECURSIVE skipFields(_, _, _)
\* lines 116-122: step over n separators from offset p; NULL when one is
\* missing
skipFields(s, p, n) ==
    IF n = 0 THEN p
    ELSE IF strchr(s, p, DATA_SEP) = NULL THEN NULL
    ELSE skipFields(s, strchr(s, p, DATA_SEP) + 1, n - 1)

\* lines 113-132: one turn of the loop over the rows
RuRow ==
    /\ rupc = "rows"
    /\ LET r == fgets(sizeofBuf, file)
           nread == strlen(r.buf)
           date == skipFields(r.buf, 0, date_index)
           tm == strptime(r.buf, date)
           tmp == mktime(tm)
       IN  /\ r.ok
           /\ IF date = NULL
              THEN /\ rupc' = "died"
                   /\ ruret' = Die("Date field not found in data")
                   /\ file' = r.file
              ELSE IF ~tm.ok
              THEN /\ rupc' = "died"
                   /\ ruret' = Die("Failed to parse date in file")
                   /\ file' = r.file
              ELSE IF tmp >= begin
              THEN /\ rupc' = "returned"
                   /\ ruret' = Ret(tmp)
                   /\ file' = fseek(r.file, SEEK_CUR, -nread)
              ELSE /\ UNCHANGED <<rupc, ruret>>
                   /\ file' = r.file
    /\ UNCHANGED <<layout, begin, date_index, ixVars, rsVars, gsVars>>

\* lines 113, 133-135: the end of the file is reached, return 0
RuEof ==
    /\ rupc = "rows"
    /\ ~fgets(sizeofBuf, file).ok
    /\ rupc' = "returned"
    /\ ruret' = Ret(0)
    /\ UNCHANGED <<file, layout, begin, date_index, ixVars, rsVars, gsVars>>

NextScan == RuHeader \/ RuRow \/ RuEof

SpecScan == InitScan /\ [][NextScan]_vars

\* what the stream was written from: every row has all its fields and a
\* date that parses, and the dates ascend
RowTime(row) == strtotime(row.date)

WellFormedRows(lay) ==
    /\ lay.header # <<>>
    /\ \A k \in 1..Len(lay.rows) :
          /\ Len(RowFields(lay.header, lay.rows[k])) = Len(lay.header)
          /\ strptime(lay.rows[k].date, 0).ok

AscendingRows(lay) ==
    \A k \in 1..(Len(lay.rows) - 1) :
        RowTime(lay.rows[k]) < RowTime(lay.rows[k + 1])

Qualifying == {k \in 1..Len(layout.rows) : RowTime(layout.rows[k]) >= begin}
FirstQualifying == CHOOSE k \in Qualifying : \A j \in Qualifying : k <= j

\* C1: on a header with a date column and date-ascending rows of which one
\* has date >= begin, read_until returns the date of the first such row and
\* leaves it unconsumed: the next line read from the stream is that row.
C1_FirstRowLeftUnconsumed ==
    (/\ rupc = "returned"
     /\ WellFormedRows(layout) /\ AscendingRows(layout)
     /\ Qualifying # {}) =>
        /\ ruret = Ret(RowTime(layout.rows[FirstQualifying]))
        /\ fgets(sizeofBuf, file).buf =
              RowLine(layout.header, layout.rows[FirstQualifying])

\* C6: on a valid header (a date column and at least one other column) and
\* well-formed rows none of which has date >= begin, read_until returns 0
\* without ending the process, the stream at end of file.
C6_NotFoundReturnsZeroAtEof ==
    (/\ rupc \in {"returned", "died"}
     /\ Len(layout.header) >= 2
     /\ \E k \in 1..Len(layout.header) : IsDateField(layout.header[k])
     /\ WellFormedRows(layout)
     /\ Qualifying = {}) =>
        /\ rupc = "returned"
        /\ ruret = Ret(0)
        /\ file.pos = Len(file.data)

-----------------------------------------------------------------------------
(* strtod: decimal literals (no exponent, no hexadecimal, no inf or nan);   *)
(* a double is [neg, mant, scale], the number mant / 10^scale, negated      *)
(* when neg, with no trailing zero in its fraction                          *)

IsSpace(c) == c \in {" ", "\t", "\n", "\r", "\f"}

RECURSIVE skipSpace(_, _)
skipSpace(s, p) == IF IsSpace(CharAt(s, p)) THEN skipSpace(s, p + 1) ELSE p

RECURSIVE Pow10(_)
Pow10(n) == IF n = 0 THEN 1 ELSE 10 * Pow10(n - 1)

RECURSIVE Normalize(_, _, _)
Normalize(neg, mant, scale) ==
    IF mant = 0 THEN [neg |-> FALSE, mant |-> 0, scale |-> 0]
    ELSE IF scale > 0 /\ mant % 10 = 0 THEN Normalize(neg, mant \div 10, scale - 1)
    ELSE [neg |-> neg, mant |-> mant, scale |-> scale]

Zero == [neg |-> FALSE, mant |-> 0, scale |-> 0]

\* strtod(s + p, &endptr): [val, endptr]; endptr = p when no number starts
\* there (after white space and a sign)
strtod(s, p) ==
    LET q == skipSpace(s, p)
        q1 == IF CharAt(s, q) \in {"-", "+"} THEN q + 1 ELSE q
        ip == readNumber(s, q1, Len(s), 0, 0)
        fr == IF CharAt(s, ip.p) = "."
              THEN readNumber(s, ip.p + 1, Len(s), 0, 0)
              ELSE [n |-> 0, val |-> 0, p |-> ip.p]
    IN  IF ip.n = 0 /\ fr.n = 0
        THEN [val |-> Zero, endptr |-> p]
        ELSE [val |-> Normalize(CharAt(s, q) = "-",
                                ip.val * Pow10(fr.n) + fr.val, fr.n),
              endptr |-> fr.p]

-----------------------------------------------------------------------------
(* main (from the reading of standard input on) and read_stock_data *)

s10 == <<"1","0">>
s11p5 == <<"1","1",".","5">>
s1x == <<"1","x">>

\* the texts of the "Adj. Close" column
PriceTexts == {s10, s11p5, <<>>, s1x}
PriceRowKinds == [price : PriceTexts, short : {FALSE}]
                    \cup {[price |-> s10, short |-> TRUE]}
PriceHeaders == {<<sAdjClose, sDate>>, <<sDate, sAdjClose>>,
                 <<sDate, sAdjClose, sClose>>}

\* the n-th day of January 2018
DayText(n) == <<"2","0","1","8","-","0","1","-",
                Digits[(n \div 10) + 1], Digits[(n % 10) + 1]>>

\* a file of consecutive trading days from 2018-01-02
MkFile(header, kinds) ==
    [exists |-> TRUE, header |-> header,
     rows |-> [j \in 1..Len(kinds) |->
                 [date |-> DayText(j + 1), price |-> kinds[j].price,
                  short |-> kinds[j].short]]]

EmptyFile == [exists |-> TRUE, header |-> <<>>, rows |-> <<>>]
MissingFile == [exists |-> FALSE, header |-> <<>>, rows |-> <<>>]

PriceFiles ==
    {MkFile(h, ks) : h \in PriceHeaders,
                     ks \in SeqsUpTo(PriceRowKinds, MaxFileRows)}
        \cup {EmptyFile, MissingFile}

CinInputs == {[begin_date |-> d0101, end_date |-> d0201],
              [begin_date |-> sNA, end_date |-> d0201],
              [begin_date |-> d0101, end_date |-> sNA]}

\* what buf may hold before anything was read into it
StackGarbage == {<<>>, Join(<<sAdjClose, sDate>>) \o <<NL>>}

parse_date(s) == IF strptime(s, 0).ok THEN mktime(strptime(s, 0)) ELSE 0

InitRead ==
    /\ cin \in CinInputs
    /\ files \in SeqsUpTo(PriceFiles, MaxFiles)
    \* the files are not looked at when a date does not parse: one list each
    /\ (parse_date(cin.begin_date) = 0 \/ parse_date(cin.end_date) = 0)
          => files = <<MissingFile>>
    /\ mpc = "main"
    /\ mexit = None
    /\ fidx = 0
    /\ rowno = 0
    /\ fp = [data |-> <<>>, pos |-> 0]
    /\ buf = [init |-> FALSE, text |-> <<>>]
    /\ close_index = 0
    /\ prices = <<>>
    /\ data = <<>>
    /\ nopen = 0
    /\ IxIdle
    /\ RuIdle
    /\ GsIdle

\* main, lines 370-389: the dates and the file names are read, and
\* read_stock_data is entered
MainInput ==
    /\ mpc = "main"
    /\ IF parse_date(cin.begin_date) = 0 \/ parse_date(cin.end_date) = 0
       THEN /\ mpc' = "died"
            /\ mexit' = Die("Error parsing date")
            /\ UNCHANGED fidx
       ELSE /\ mpc' = "open"
            /\ fidx' = 1
            /\ UNCHANGED mexit
    /\ UNCHANGED <<cin, files, rowno, fp, buf, close_index, prices, data,
                   nopen, ixVars, ruVars, gsVars>>

\* read_stock_data, lines 55-63: the next file is opened, its header line
\* read (the result of fgets is not looked at) and "Adj. Close" found in it
RsdOpen ==
    /\ mpc = "open"
    /\ fidx <= Len(files)
    /\ IF ~files[fidx].exists
       THEN /\ mpc' = "died"
            /\ mexit' = Die("failed to open file")
            /\ UNCHANGED <<fp, buf, close_index, nopen, rowno>>
       ELSE LET r == fgets(sizeofBuf, [data |-> FileText(files[fidx]), pos |-> 0])
            IN  /\ fp' = r.file
                /\ nopen' = nopen + 1
                /\ rowno' = 0
                /\ \E g \in StackGarbage :
                      buf' = IF r.ok THEN [init |-> TRUE, text |-> r.buf]
                             ELSE IF buf.init THEN buf
                             ELSE [init |-> TRUE, text |-> g]
                /\ LET ix == indexOf(buf'.text, sAdjClose)
                   IN  IF ix.status = "die"
                       THEN /\ mpc' = "died"
                            /\ mexit' = ix
                            /\ UNCHANGED close_index
                       ELSE /\ mpc' = "rows"
                            /\ close_index' = ix.value
                            /\ UNCHANGED mexit
    /\ UNCHANGED <<cin, files, fidx, prices, data, ixVars, ruVars, gsVars>>

\* what follows the dereference of NULL + 1 (lines 67-71, a row with fewer
\* separators than close_index): the process is killed, or some number is
\* read
UBOutcomes == {"SIGSEGV", "number"}

\* lines 64-77: one data row
RsdRow ==
    /\ mpc = "rows"
    /\ LET r == fgets(sizeofBuf, fp)
           p == skipFields(r.buf, 0, close_index)
           d == strtod(r.buf, p)
       IN  /\ r.ok
           /\ fp' = r.file
           /\ buf' = [init |-> TRUE, text |-> r.buf]
           /\ rowno' = rowno + 1
           /\ IF p = NULL
              THEN \E o \in UBOutcomes :
                     IF o = "SIGSEGV"
                     THEN /\ mpc' = "died"
                          /\ mexit' = [status |-> "signal", value |-> o]
                          /\ UNCHANGED prices
                     ELSE /\ prices' = Append(prices, Zero)
                          /\ UNCHANGED <<mpc, mexit>>
              ELSE IF d.val = Zero /\ d.endptr = p
              THEN /\ mpc' = "died"
                   /\ mexit' = Die("Parsing Adj. Close")
                   /\ UNCHANGED prices
              ELSE /\ prices' = Append(prices, d.val)
                   /\ UNCHANGED <<mpc, mexit>>
    /\ UNCHANGED <<cin, files, fidx, close_index, data, nopen, ixVars, ruVars, gsVars>>

\* lines 64 and 78: no row is left; prices is added to data and the loop
\* goes to the next file
RsdEndFile ==
    /\ mpc = "rows"
    /\ ~fgets(sizeofBuf, fp).ok
    /\ data' = Append(data, prices)
    /\ fidx' = fidx + 1
    /\ mpc' = "open"
    /\ UNCHANGED <<cin, files, mexit, rowno, fp, buf, close_index, prices,
                   nopen, ixVars, ruVars, gsVars>>

\* lines 80 and 389-390: read_stock_data returns data and main returns 0
RsdReturn ==
    /\ mpc = "open"
    /\ fidx > Len(files)
    /\ mpc' = "done"
    /\ mexit' = Ret(0)
    /\ UNCHANGED <<cin, files, fidx, rowno, fp, buf, close_index, prices,
                   data, nopen, ixVars, ruVars, gsVars>>

NextRead == MainInput \/ RsdOpen \/ RsdRow \/ RsdEndFile \/ RsdReturn

SpecRead == InitRead /\ [][NextRead]_vars

\* the number a text of the "Adj. Close" column stands for, if it is one:
\* digits, with an optional fraction
RECURSIVE DigitsValue(_)
DigitsValue(t) ==
    IF t = <<>> THEN 0
    ELSE DigitsValue(SubSeq(t, 1, Len(t) - 1)) * 10 + DigitVal(t[Len(t)])

IsNumeric(t) ==
    /\ \E i \in 1..Len(t) : IsDigit(t[i])
    /\ \A i \in 1..Len(t) : IsDigit(t[i]) \/ t[i] = "."
    /\ Cardinality({i \in 1..Len(t) : t[i] = "."}) <= 1

NumberOf(t) ==
    LET dot == IF \E i \in 1..Len(t) : t[i] = "."
               THEN CHOOSE i \in 1..Len(t) : t[i] = "." ELSE Len(t) + 1
    IN  Normalize(FALSE,
                  DigitsValue(SubSeq(t, 1, dot - 1) \o SubSeq(t, dot + 1, Len(t))),
                  IF dot > Len(t) THEN 0 ELSE Len(t) - dot)

\* the file has a header with "Adj. Close" in it and rows with every field
FileWellFormed(f) ==
    /\ f.exists
    /\ \E i \in 1..Len(f.header) : FieldEq(f.header[i], sAdjClose)
    /\ \A j \in 1..Len(f.rows) : ~f.rows[j].short

AllNumeric(f) == \A j \in 1..Len(f.rows) : IsNumeric(f.rows[j].price)

\* C2: the k-th series returned by read_stock_data is the "Adj. Close"
\* field of the rows of the k-th file, parsed as numbers: one value per row,
\* in row order, none from another file.
C2_SeriesOfEachFile ==
    (/\ mpc = "done"
     /\ \A k \in 1..Len(files) : FileWellFormed(files[k]) /\ AllNumeric(files[k])) =>
        /\ Len(data) = Len(files)
        /\ \A k \in 1..Len(files) :
              data[k] = [j \in 1..Len(files[k].rows) |->
                            NumberOf(files[k].rows[j].price)]

\* C7: what the alignment stage hands on is a rectangular matrix: every
\* series has the same number of values; files whose row counts differ lead
\* to an abort.
C7_Rectangular ==
    (/\ mpc = "done"
     /\ \A k \in 1..Len(files) : FileWellFormed(files[k]) /\ AllNumeric(files[k])) =>
        \A k1, k2 \in 1..Len(data) : Len(data[k1]) = Len(data[k2])

\* row j of file k has been passed by the loop of read_stock_data
Passed(k, j) == k < fidx \/ (k = fidx /\ mpc \in {"rows", "died"} /\ j <= rowno)

\* C10: at the first row whose "Adj. Close" value is empty or not a number
\* read_stock_data aborts; it appends nothing for that row and does not go on
\* to the next row.
C10_AbortAtFirstBadValue ==
    \A k \in 1..Len(files) : \A j \in 1..Len(files[k].rows) :
        (/\ FileWellFormed(files[k])
         /\ Passed(k, j)
         /\ ~IsNumeric(files[k].rows[j].price)) =>
            /\ mpc = "died"
            /\ k = fidx /\ j = rowno
            /\ mexit = Die("Parsing Adj. Close")

-----------------------------------------------------------------------------
(* getstock: strings are sequences of characters or of longer pieces of    *)
(* text (a ticker is a sequence of characters)                              *)

urlbase == "https://www.quandl.com/api/v3/datasets/WIKI/"

\* std::string::c_str(): a pointer to the text, never a null pointer
c_str(str) == [null |-> FALSE, str |-> str]

lstrip(str) ==
    IF \E i \in 1..Len(str) : ~IsSpace(str[i])
    THEN SubSeq(str, CHOOSE i \in 1..Len(str) :
                        ~IsSpace(str[i]) /\ \A j \in 1..(i - 1) : IsSpace(str[j]),
                Len(str))
    ELSE str

rstrip(str) ==
    IF \E i \in 1..Len(str) : ~IsSpace(str[i])
    THEN SubSeq(str, 1, CHOOSE i \in 1..Len(str) :
                        ~IsSpace(str[i]) /\ \A j \in (i + 1)..Len(str) : IsSpace(str[j]))
    ELSE <<>>

strip(str) == rstrip(lstrip(str))

upper(str) == [i \in 1..Len(str) |-> toupper(str[i])]

make_url(tk, token, b, e) ==
    <<urlbase>> \o tk \o <<".csv?order=asc&api_key=">> \o token
        \o (IF ~b.null THEN <<"&start_date=">> \o b.str ELSE <<>>)
        \o (IF ~e.null THEN <<"&end_date=">> \o e.str ELSE <<>>)

make_filename(root, tk, b, e) ==
    root \o (IF root[Len(root)] # "/" THEN <<"/">> ELSE <<>>) \o tk
        \o (IF ~b.null /\ ~e.null THEN <<".">> \o b.str \o <<".">> \o e.str
            ELSE <<>>)
        \o <<".csv">>

\* all of buffer goes to the file: the bytes fwrite is given
writef(buf0) == buf0

curl_callback_overwrite(cbuf, chunk) == chunk

\* the chunk is appended to the client buffer (and all of it accepted)
curl_callback(cbuf, chunk) == cbuf \o chunk

RECURSIVE popSlashes(_)
\* lines 280-282: trailing '/' characters are removed, but not the last
\* character
popSlashes(root) ==
    IF Len(root) > 1 /\ root[Len(root)] = "/"
    THEN popSlashes(SubSeq(root, 1, Len(root) - 1))
    ELSE root

MsgBufSize == 64

\* sprintf(msgbuf, "<prefix>%s\n", ticker): the text, and whether it and its
\* terminator go past the end of msgbuf
sprintf(prefix, prefixLen, tk) ==
    [text |-> <<prefix>> \o tk \o <<NL>>,
     overflow |-> prefixLen + Len(tk) + 2 > MsgBufSize]

\* what writing past the end of msgbuf leads to: the process is aborted in
\* sprintf, or it goes on with the text written
OverflowOutcomes == {"SIGABRT", "written"}

-----------------------------------------------------------------------------
(* getstock's main, after the options are parsed *)

\* the shortest ticker whose begin marker does not fit msgbuf
sLong == [i \in 1..(MsgBufSize - 7) |-> "a"]
sGs == <<"G","s">>
TickerArgs == {sGs, sLong}
Chunks == {<<"x">>, <<"y","z">>}
sKey == <<" ","K","\n">>
sDir == <<"data","/">>
sBegin == <<"2018-01-01">>
sEnd == <<"2018-04-01">>

ValidOpt(o) ==
    /\ o.tickers # <<>>
    /\ o.keyfile # <<>>
    /\ strip(o.keytext) # <<>>

InitGet ==
    /\ opt \in [keyfile : {<<>>, <<"keyfile">>},
                keytext : {sKey, <<"\n">>},
                b : {<<>>, sBegin}, e : {<<>>, sEnd},
                o : {<<>>, sDir},
                tickers : SeqsUpTo(TickerArgs, MaxTickers)]
    \* a command line the run stops on is taken once per reason to stop
    /\ ~ValidOpt(opt) =>
          /\ opt.b = <<>> /\ opt.e = <<>> /\ opt.o = <<>>
          /\ Len(opt.tickers) <= 1
    /\ gpc = "start"
    /\ gexit = None
    /\ api_key = <<>>
    /\ dbroot = opt.o
    /\ av = opt.tickers
    /\ ticker = <<>>
    /\ url = <<>>
    /\ buffer = <<>>
    /\ gstdout = <<>>
    /\ gfiles = <<>>
    /\ gopen = 0
    /\ sent = <<>>
    /\ failed = [at |-> 0, res |-> "CURLE_OK"]
    /\ IxIdle
    /\ RuIdle
    /\ RsIdle

\* lines 266-285: the checks of the command line, the api key, the output
\* directory
GsStart ==
    /\ gpc = "start"
    /\ \E status \in {0, -1} :
         IF av = <<>>
         THEN /\ gpc' = "died"
              /\ gexit' = Die("Must specify at least one stock symbol")
              /\ UNCHANGED <<api_key, dbroot>>
         ELSE IF opt.keyfile = <<>>
         THEN /\ gpc' = "died"
              /\ gexit' = Die("API Key file missing")
              /\ UNCHANGED <<api_key, dbroot>>
         ELSE IF strip(opt.keytext) = <<>>
         THEN /\ gpc' = "died"
              /\ gexit' = Die("Failed to read api key from file")
              /\ api_key' = strip(opt.keytext)
              /\ UNCHANGED dbroot
         ELSE IF dbroot # <<>> /\ status = -1
         THEN /\ gpc' = "died"
              /\ gexit' = Die("Failed to initialize the database")
              /\ api_key' = strip(opt.keytext)
              /\ UNCHANGED dbroot
         ELSE /\ gpc' = "loop"
              /\ api_key' = strip(opt.keytext)
              /\ dbroot' = popSlashes(dbroot)
              /\ UNCHANGED gexit
    /\ UNCHANGED <<opt, av, ticker, url, buffer, gstdout, gfiles, gopen,
                   sent, failed, ixVars, ruVars, rsVars>>

\* lines 286-294: the ticker is upper-cased, the URL made, the transfer
\* started
GsFetch ==
    /\ gpc = "loop"
    /\ av # <<>>
    /\ ticker' = upper(Head(av))
    /\ url' = make_url(ticker', api_key, c_str(opt.b), c_str(opt.e))
    /\ sent' = Append(sent, <<>>)
    /\ gpc' = "transfer"
    /\ UNCHANGED <<opt, gexit, api_key, dbroot, av, buffer, gstdout, gfiles,
                   gopen, failed, ixVars, ruVars, rsVars>>

RECURSIVE Flatten(_)
Flatten(chunks) ==
    IF chunks = <<>> THEN <<>> ELSE Head(chunks) \o Flatten(Tail(chunks))

RECURSIVE TotalLen(_)
TotalLen(ss) == IF ss = <<>> THEN 0 ELSE Len(Head(ss)) + TotalLen(Tail(ss))

\* curl_callback, lines 178-182: the transport delivers a chunk of the body
GsChunk ==
    /\ gpc = "transfer"
    /\ TotalLen(sent) < MaxChunks
    /\ \E c \in Chunks :
         /\ buffer' = curl_callback(buffer, c)
         /\ sent' = [sent EXCEPT ![Len(sent)] = Append(@, c)]
    /\ UNCHANGED <<opt, gpc, gexit, api_key, dbroot, av, ticker, url,
                   gstdout, gfiles, gopen, failed, ixVars, ruVars, rsVars>>

\* the results of curl_easy_perform: success, a failure to connect, a
\* status that is not 2xx
TransferResults == {"CURLE_OK", "CURLE_COULDNT_CONNECT", "HTTP_404"}

Aborted ==
    /\ gpc' = "died"
    /\ gexit' = [status |-> "signal", value |-> "SIGABRT"]
    /\ UNCHANGED <<av, buffer, gfiles>>

\* lines 294-320: curl_easy_perform returns (its result is not looked at),
\* the body is written to the file or to stdout, the buffer is cleared
GsPerformed ==
    /\ gpc = "transfer"
    /\ \E res \in TransferResults :
         failed' = IF failed.at = 0 /\ res # "CURLE_OK"
                   THEN [at |-> Len(sent), res |-> res] ELSE failed
    /\ IF dbroot # <<>>
       THEN \E opened \in BOOLEAN :
              IF ~opened
              THEN /\ gpc' = "died"
                   /\ gexit' = Die("Failed to open file")
                   /\ UNCHANGED <<av, buffer, gstdout, gfiles>>
              ELSE /\ gfiles' = Append(gfiles,
                          [name |-> make_filename(dbroot, ticker,
                                                  c_str(opt.b), c_str(opt.e)),
                           content |-> writef(buffer)])
                   /\ buffer' = <<>>
                   /\ av' = Tail(av)
                   /\ gpc' = "loop"
                   /\ UNCHANGED <<gexit, gstdout>>
       ELSE LET bm == sprintf("begin:", 6, ticker)
                em == sprintf("end:", 4, ticker)
            IN  \E o1, o2 \in OverflowOutcomes :
                  IF bm.overflow /\ o1 = "SIGABRT"
                  THEN Aborted /\ UNCHANGED gstdout
                  ELSE IF em.overflow /\ o2 = "SIGABRT"
                  THEN Aborted /\ gstdout' = gstdout \o <<bm.text, writef(buffer)>>
                  ELSE /\ gstdout' = gstdout \o <<bm.text, writef(buffer), em.text>>
                       /\ buffer' = <<>>
                       /\ av' = Tail(av)
                       /\ gpc' = "loop"
                       /\ UNCHANGED <<gexit, gfiles>>
    /\ UNCHANGED <<opt, api_key, dbroot, ticker, url, gopen, sent,
                   ixVars, ruVars, rsVars>>

\* lines 286 and 322: no ticker is left
GsCleanup ==
    /\ gpc = "loop"
    /\ av = <<>>
    /\ gpc' = "done"
    /\ gexit' = Ret(0)
    /\ UNCHANGED <<opt, api_key, dbroot, av, ticker, url, buffer, gstdout,
                   gfiles, gopen, sent, failed, ixVars, ruVars, rsVars>>

NextGet == GsStart \/ GsFetch \/ GsChunk \/ GsPerformed \/ GsCleanup

SpecGet == InitGet /\ [][NextGet]_vars

\* the tickers whose transfer is over and whose output is written
NDone == Len(opt.tickers) - Len(av)

\* C3: what getstock emits for a ticker (the file, or the body on stdout)
\* is the concatenation, in the order of delivery, of exactly the chunks
\* delivered during that ticker's transfer; the buffer holds nothing of an
\* earlier transfer.
C3_EmittedIsChunksInOrder ==
    /\ \A k \in 1..Len(gfiles) : gfiles[k].content = Flatten(sent[k])
    /\ \A k \in 1..Len(sent) :
          3 * k - 1 <= Len(gstdout) => gstdout[3 * k - 1] = Flatten(sent[k])
    /\ gpc = "transfer" => buffer = Flatten(sent[Len(sent)])
    /\ gpc \in {"loop", "done"} =>
          IF dbroot # <<>> THEN Len(gfiles) = NDone
          ELSE Len(gstdout) = 3 * NDone

\* two tickers were fetched, the first body in two chunks, the second in
\* one, and both bodies are on stdout
C3_Witness ==
    /\ gpc = "done"
    /\ Len(sent) = 2
    /\ sent[1] = <<<<"y","z">>, <<"x">>>>
    /\ sent[2] = <<<<"x">>>>
    /\ Len(gstdout) = 6

\* C4: a transfer that ends in a connection failure or a status that is not
\* 2xx aborts the run at once: nothing is emitted for that ticker and no
\* later ticker is fetched.
C4_FailedTransferAborts ==
    (failed.at # 0 /\ gpc # "transfer") =>
        /\ gpc = "died"
        /\ Len(sent) = failed.at
        /\ Len(gfiles) < failed.at
        /\ Len(gstdout) <= 3 * (failed.at - 1)

HasPiece(str, piece) == \E i \in 1..Len(str) : str[i] = piece

\* C8: the URL requested is the base endpoint, the ticker,
\* ".csv?order=asc&api_key=" and the token, and it has the start_date
\* parameter iff a begin date was given and the end_date parameter iff an
\* end date was given.
C8_UrlParameters ==
    gpc = "transfer" =>
        /\ SubSeq(url, 1, Len(ticker) + Len(api_key) + 2) =
              <<urlbase>> \o ticker \o <<".csv?order=asc&api_key=">> \o api_key
        /\ HasPiece(url, "&start_date=") <=> (opt.b # <<>>)
        /\ HasPiece(url, "&end_date=") <=> (opt.e # <<>>)

\* t is a with its letters in upper case
IsUpperOf(t, a) ==
    /\ Len(t) = Len(a)
    /\ \A i \in 1..Len(a) :
          /\ tolower(t[i]) = tolower(a[i])
          /\ ~\E n \in 1..26 : LowerLetters[n] = t[i]

\* stdout is whole blocks, one per ticker in command-line order: begin
\* marker, body, end marker, the symbol in upper case
BlocksInOrder ==
    \A i \in 1..Len(gstdout) :
        LET k == (i + 2) \div 3
        IN  /\ k <= Len(opt.tickers)
            /\ i % 3 = 1 =>
                  /\ Len(gstdout[i]) = Len(opt.tickers[k]) + 2
                  /\ gstdout[i][1] = "begin:"
                  /\ IsUpperOf(SubSeq(gstdout[i], 2, Len(gstdout[i]) - 1),
                               opt.tickers[k])
                  /\ gstdout[i][Len(gstdout[i])] = NL
            /\ i % 3 = 0 =>
                  /\ Len(gstdout[i]) = Len(opt.tickers[k]) + 2
                  /\ gstdout[i][1] = "end:"
                  /\ IsUpperOf(SubSeq(gstdout[i], 2, Len(gstdout[i]) - 1),
                               opt.tickers[k])
                  /\ gstdout[i][Len(gstdout[i])] = NL

\* C9: without an output directory, stdout is one block per ticker in
\* command-line order, begin:<TICKER>, the body, end:<TICKER> with the symbol
\* in upper case; every begin marker is followed by the end marker of the
\* same ticker before another begin marker.
C9_OneBlockPerTicker ==
    (opt.o = <<>> /\ ValidOpt(opt)) =>
        /\ BlocksInOrder
        /\ gpc # "transfer" => Len(gstdout) % 3 = 0
        /\ gpc \in {"done", "died"} => Len(gstdout) = 3 * Len(opt.tickers)

\* the same for tickers that fit msgbuf with the marker around them
C9_BlocksOfTickersThatFit ==
    (/\ opt.o = <<>> /\ ValidOpt(opt)
     /\ \A k \in 1..Len(opt.tickers) :
           Len(opt.tickers[k]) + 8 <= MsgBufSize) =>
        /\ BlocksInOrder
        /\ gpc # "transfer" => Len(gstdout) % 3 = 0
        /\ gpc # "died"
        /\ gpc = "done" => Len(gstdout) = 3 * Len(opt.tickers)

-----------------------------------------------------------------------------
(* File handles of read_stock_data: fopen at line 57, no fclose in main.cc  *)

\* C11: the handle read_stock_data opens for one file is closed before the
\* next file is opened: on files that exist and have an "Adj. Close" column
\* and numeric prices, at every point of a run at most one data file handle
\* is open, and none is open once read_stock_data has returned.
C11_OneHandleAtATime ==
    (\A k \in 1..Len(files) : FileWellFormed(files[k]) /\ AllNumeric(files[k])) =>
        /\ nopen <= 1
        /\ mpc = "done" => nopen = 0

=============================================================================
